---- MODULE Spec2Model ----
(***************************************************************************)
(* A model of tic_tac_toe_states.py: enumeration of the 3x3 boards, the    *)
(* legality filter, deduplication under the 8 symmetries of the square,    *)
(* and the two transition tables (all legal boards, canonical boards).     *)
(*                                                                         *)
(* A Python list is a TLA+ sequence; Python index p is TLA+ index p + 1.   *)
(* A board is a sequence of rows, a row a sequence of cells                *)
(* (0 empty, 1 X, 2 O).  A Python str is the sequence of its characters.   *)
(***************************************************************************)
EXTENDS Integers, Sequences, FiniteSets, TLC

VARIABLES
    pc,                 \* position of the running function
    valid_boards,       \* main: valid_boards
    all_transitions,    \* main: all_transitions
    unique_boards,      \* main: unique_boards
    unique_transitions, \* main / find_unique_transitions: unique_transitions
    unique_board_to_id, \* find_unique_transitions: unique_board_to_id
    i,                  \* find_unique_transitions: the enumerate() index
    stdout,             \* the warnings printed so far
    html,               \* what generate_html rendered for each board
    board,              \* the argument of a single call (validator, variants)
    result,             \* what that call returned
    board_to_id,        \* find_transitions: board_to_id
    todo,               \* the enumerate() indices whose iteration has not begun
    running             \* the iterations under way: [i, n], n the next cell 3r + c

vars == <<pc, valid_boards, all_transitions, unique_boards, unique_transitions,
          unique_board_to_id, i, stdout, html, board, result,
          board_to_id, todo, running>>

----------------------------------------------------------------------------
(* Python helpers *)

Min(S) == CHOOSE x \in S : \A y \in S : x <= y

\* range(3)
range3 == 0 .. 2

\* len(board) > row and len(board[row]) > col: board[row][col] does not raise
InRange(b, row, col) == row + 1 \in DOMAIN b /\ col + 1 \in DOMAIN b[row + 1]

\* board[row][col], Python indices
At(b, row, col) == b[row + 1][col + 1]

\* [cell for row in board for cell in row]
RECURSIVE flat_from(_, _)
flat_from(b, k) == IF k > Len(b) THEN <<>> ELSE b[k] \o flat_from(b, k + 1)

flat_board(b) == flat_from(b, 1)

\* list.count(v)
count(seq, v) == Cardinality({k \in DOMAIN seq : seq[k] = v})

\* str(cell) for the cell values the boards hold
str(cell) == CASE cell = 0 -> "0" [] cell = 1 -> "1" [] cell = 2 -> "2"
               [] cell = 3 -> "3" [] cell = 4 -> "4" [] cell = 5 -> "5"

----------------------------------------------------------------------------
(* has_won: the outcome of the call is "True", "False" or "IndexError". *)
(* all(...) over a generator stops at the first false element, so an    *)
(* index out of range raises only when every earlier element was true.  *)

\* all(board[r][c] == player for ...) over the three cells <<r, c>> of `cells`,
\* read in order
all_cells(b, player, cells) ==
    LET stop == {k \in DOMAIN cells : \/ ~InRange(b, cells[k][1], cells[k][2])
                                      \/ At(b, cells[k][1], cells[k][2]) # player}
    IN  IF stop = {} THEN "True"
        ELSE IF InRange(b, cells[Min(stop)][1], cells[Min(stop)][2]) THEN "False"
        ELSE "IndexError"

has_won_call(b, player) ==
    \* Check rows
    IF \E r \in DOMAIN b : \A c \in DOMAIN b[r] : b[r][c] = player THEN "True"
    ELSE
    \* Check columns
    LET colres(col) == all_cells(b, player, <<<<0, col>>, <<1, col>>, <<2, col>>>>)
        decided == {col \in range3 : colres(col) # "False"}
    IN  IF decided # {} THEN colres(Min(decided))
        ELSE
        \* Check diagonals
        LET d1 == all_cells(b, player, <<<<0, 0>>, <<1, 1>>, <<2, 2>>>>)
            d2 == all_cells(b, player, <<<<0, 2>>, <<1, 1>>, <<2, 0>>>>)
        IN  IF d1 # "False" THEN d1 ELSE d2

has_won(b, player) == has_won_call(b, player) = "True"

----------------------------------------------------------------------------
(* is_valid_board *)

\* a validator that turns down every board without an empty cell
is_valid_board_call_rejects_full(b) ==
    LET x_count == count(flat_board(b), 1)
        o_count == count(flat_board(b), 2)
        x_won == has_won_call(b, 1)
        o_won == has_won_call(b, 2)
    IN  IF ~(x_count = o_count \/ x_count = o_count + 1) THEN "False"
        ELSE IF x_won = "IndexError" \/ o_won = "IndexError" THEN "IndexError"
        ELSE IF x_won = "True" /\ o_won = "True" THEN "False"
        ELSE IF x_won = "True" /\ x_count # o_count + 1 THEN "False"
        ELSE IF o_won = "True" /\ x_count # o_count THEN "False"
        ELSE IF count(flat_board(b), 0) = 0 THEN "False"
        ELSE "True"

\* a validator that forgets the rule for a line of X (lines 26-28)
is_valid_board_call_no_x_rule(b) ==
    LET x_count == count(flat_board(b), 1)
        o_count == count(flat_board(b), 2)
        x_won == has_won_call(b, 1)
        o_won == has_won_call(b, 2)
    IN  IF ~(x_count = o_count \/ x_count = o_count + 1) THEN "False"
        ELSE IF x_won = "IndexError" \/ o_won = "IndexError" THEN "IndexError"
        ELSE IF x_won = "True" /\ o_won = "True" THEN "False"
        ELSE IF o_won = "True" /\ x_count # o_count THEN "False"
        ELSE "True"

\* a validator that forgets the rule for a line of O (lines 30-32)
is_valid_board_call_no_o_rule(b) ==
    LET x_count == count(flat_board(b), 1)
        o_count == count(flat_board(b), 2)
        x_won == has_won_call(b, 1)
        o_won == has_won_call(b, 2)
    IN  IF ~(x_count = o_count \/ x_count = o_count + 1) THEN "False"
        ELSE IF x_won = "IndexError" \/ o_won = "IndexError" THEN "IndexError"
        ELSE IF x_won = "True" /\ o_won = "True" THEN "False"
        ELSE IF x_won = "True" /\ x_count # o_count + 1 THEN "False"
        ELSE "True"

is_valid_board_call(b) ==
    LET x_count == count(flat_board(b), 1)
        o_count == count(flat_board(b), 2)
        x_won == has_won_call(b, 1)
        o_won == has_won_call(b, 2)
    IN  IF ~(x_count = o_count \/ x_count = o_count + 1) THEN "False"
        ELSE IF x_won = "IndexError" \/ o_won = "IndexError" THEN "IndexError"
        ELSE IF x_won = "True" /\ o_won = "True" THEN "False"
        ELSE IF x_won = "True" /\ x_count # o_count + 1 THEN "False"
        ELSE IF o_won = "True" /\ x_count # o_count THEN "False"
        ELSE "True"

is_valid_board(b) == is_valid_board_call(b) = "True"

----------------------------------------------------------------------------
(* generate_all_possible_boards *)

\* a product over the pool [2, 1, 0]: the configurations in descending order
RECURSIVE product_descending(_)
product_descending(k) ==
    IF k = 0 THEN << <<>> >>
    ELSE LET prev == product_descending(k - 1)
         IN  [n \in 1 .. (Len(prev) * 3) |->
                 Append(prev[((n - 1) \div 3) + 1], 2 - ((n - 1) % 3))]

\* itertools.product([0, 1, 2], repeat=k):
\*   result = [[]]; for pool in pools: result = [x + [y] for x in result for y in pool]
RECURSIVE product(_)
product(k) ==
    IF k = 0 THEN << <<>> >>
    ELSE LET prev == product(k - 1)
         IN  [n \in 1 .. (Len(prev) * 3) |->
                 Append(prev[((n - 1) \div 3) + 1], (n - 1) % 3)]

\* board = [list(config[i:i+3]) for i in range(0, 9, 3)]
to_board(config) == <<SubSeq(config, 1, 3), SubSeq(config, 4, 6), SubSeq(config, 7, 9)>>

generate_all_possible_boards ==
    LET configs == product(9)
    IN  [n \in 1 .. Len(configs) |-> to_board(configs[n])]

empty_board == <<<<0, 0, 0>>, <<0, 0, 0>>, <<0, 0, 0>>>>

\* find_valid_boards, lines 68-70: for board in all_boards: if is_valid_board(board):
\* valid_boards.append(board).  Positions lo..hi of all_boards, processed left to
\* right (the range is halved only to keep the evaluation shallow).
RECURSIVE valid_loop(_, _, _)
valid_loop(acc, lo, hi) ==
    IF lo > hi THEN acc
    ELSE IF lo = hi
    THEN IF is_valid_board(generate_all_possible_boards[lo])
         THEN Append(acc, generate_all_possible_boards[lo])
         ELSE acc
    ELSE LET mid == (lo + hi) \div 2
             left == valid_loop(acc, lo, mid)
         IN  \* the test makes TLC compute the first half before the second
             IF Len(left) >= 0 THEN valid_loop(left, mid + 1, hi) ELSE left

WarnEmptyBoard == "Warning: Empty board not found in valid states!"

\* find_valid_boards: what it returns and what it prints
find_valid_boards ==
    LET valid == valid_loop(<<>>, 1, Len(generate_all_possible_boards))
        empty_board_found == \E k \in DOMAIN valid : valid[k] = empty_board
    IN  IF empty_board_found
        THEN [boards |-> valid, printed |-> <<>>]
        ELSE [boards |-> Append(valid, empty_board), printed |-> <<WarnEmptyBoard>>]

----------------------------------------------------------------------------
(* board_to_string, get_all_variants, remove_duplicates *)

\* ''.join(str(cell) for row in board for cell in row)
board_to_string(b) == [k \in 1 .. Len(flat_board(b)) |-> str(flat_board(b)[k])]

\* [[f[i, j] for j in range(3)] for i in range(3)]
grid(f) == <<<<f[0, 0], f[0, 1], f[0, 2]>>,
             <<f[1, 0], f[1, 1], f[1, 2]>>,
             <<f[2, 0], f[2, 1], f[2, 2]>>>>

\* a variant list whose 270-degree rotation repeats the 90-degree one
get_all_variants_bad_rot270(b) ==
    << grid([ii \in range3, j \in range3 |-> At(b, ii, j)]),
       grid([ii \in range3, j \in range3 |-> At(b, 2 - j, ii)]),
       grid([ii \in range3, j \in range3 |-> At(b, 2 - ii, 2 - j)]),
       grid([ii \in range3, j \in range3 |-> At(b, 2 - j, ii)]),
       grid([ii \in range3, j \in range3 |-> At(b, ii, 2 - j)]),
       grid([ii \in range3, j \in range3 |-> At(b, 2 - ii, j)]),
       grid([ii \in range3, j \in range3 |-> At(b, j, ii)]),
       grid([ii \in range3, j \in range3 |-> At(b, 2 - j, 2 - ii)]) >>

\* a variant list that holds the rotations only
get_all_variants_rotations_only(b) ==
    << grid([ii \in range3, j \in range3 |-> At(b, ii, j)]),
       grid([ii \in range3, j \in range3 |-> At(b, 2 - j, ii)]),
       grid([ii \in range3, j \in range3 |-> At(b, 2 - ii, 2 - j)]),
       grid([ii \in range3, j \in range3 |-> At(b, j, 2 - ii)]) >>

get_all_variants(b) ==
    << \* Original board
       grid([ii \in range3, j \in range3 |-> At(b, ii, j)]),
       \* Rotate 90 degrees
       grid([ii \in range3, j \in range3 |-> At(b, 2 - j, ii)]),
       \* Rotate 180 degrees
       grid([ii \in range3, j \in range3 |-> At(b, 2 - ii, 2 - j)]),
       \* Rotate 270 degrees
       grid([ii \in range3, j \in range3 |-> At(b, j, 2 - ii)]),
       \* Reflect horizontally
       grid([ii \in range3, j \in range3 |-> At(b, ii, 2 - j)]),
       \* Reflect vertically
       grid([ii \in range3, j \in range3 |-> At(b, 2 - ii, j)]),
       \* Reflect along main diagonal
       grid([ii \in range3, j \in range3 |-> At(b, j, ii)]),
       \* Reflect along other diagonal
       grid([ii \in range3, j \in range3 |-> At(b, 2 - j, 2 - ii)]) >>

\* a deduplication that compares the board's own string only, no symmetry
RECURSIVE dedupe_loop_no_symmetry(_, _, _, _)
dedupe_loop_no_symmetry(acc, boards, lo, hi) ==
    IF lo > hi THEN acc
    ELSE IF lo = hi
    THEN LET variant_strings == {board_to_string(boards[lo])}
         IN  IF variant_strings \cap acc.seen = {}
             THEN [unique_boards |-> Append(acc.unique_boards, boards[lo]),
                   seen |-> acc.seen \cup variant_strings]
             ELSE acc
    ELSE LET mid == (lo + hi) \div 2
             left == dedupe_loop_no_symmetry(acc, boards, lo, mid)
         IN  IF Len(left.unique_boards) >= 0
             THEN dedupe_loop_no_symmetry(left, boards, mid + 1, hi) ELSE left

\* a deduplication that puts each new representative in front of the others
RECURSIVE dedupe_loop_prepend(_, _, _, _)
dedupe_loop_prepend(acc, boards, lo, hi) ==
    IF lo > hi THEN acc
    ELSE IF lo = hi
    THEN LET variants == get_all_variants(boards[lo])
             variant_strings == {board_to_string(variants[k]) : k \in DOMAIN variants}
         IN  IF variant_strings \cap acc.seen = {}
             THEN [unique_boards |-> <<boards[lo]>> \o acc.unique_boards,
                   seen |-> acc.seen \cup variant_strings]
             ELSE acc
    ELSE LET mid == (lo + hi) \div 2
             left == dedupe_loop_prepend(acc, boards, lo, mid)
         IN  IF Len(left.unique_boards) >= 0
             THEN dedupe_loop_prepend(left, boards, mid + 1, hi) ELSE left

\* remove_duplicates, lines 98-105, for the boards at positions lo..hi;
\* acc = [unique_boards, seen]
RECURSIVE dedupe_loop(_, _, _, _)
dedupe_loop(acc, boards, lo, hi) ==
    IF lo > hi THEN acc
    ELSE IF lo = hi
    THEN LET variants == get_all_variants(boards[lo])
             variant_strings == {board_to_string(variants[k]) : k \in DOMAIN variants}
         IN  IF variant_strings \cap acc.seen = {}
             THEN [unique_boards |-> Append(acc.unique_boards, boards[lo]),
                   seen |-> acc.seen \cup variant_strings]
             ELSE acc
    ELSE LET mid == (lo + hi) \div 2
             left == dedupe_loop(acc, boards, lo, mid)
         IN  \* the test makes TLC compute the first half before the second
             IF Len(left.unique_boards) >= 0
             THEN dedupe_loop(left, boards, mid + 1, hi) ELSE left

\* a deduplication that loses its last representative
remove_duplicates_drops_last(boards) ==
    LET kept == dedupe_loop([unique_boards |-> <<>>, seen |-> {}],
                            boards, 1, Len(boards)).unique_boards
    IN  SubSeq(kept, 1, Len(kept) - 1)

remove_duplicates(boards) ==
    dedupe_loop([unique_boards |-> <<>>, seen |-> {}], boards, 1, Len(boards)).unique_boards

----------------------------------------------------------------------------
(* find_transitions and find_unique_transitions *)

\* an id table numbered from 0: {board_to_string(board): i for i, board in ...}
RECURSIVE id_table_range_from_zero(_, _, _)
id_table_range_from_zero(boards, lo, hi) ==
    IF lo > hi THEN <<>>
    ELSE IF lo = hi THEN board_to_string(boards[lo]) :> (lo - 1)
    ELSE LET mid == (lo + hi) \div 2
         IN  id_table_range_from_zero(boards, mid + 1, hi)
                 @@ id_table_range_from_zero(boards, lo, mid)

\* {board_to_string(board): i+1 for i, board in enumerate(boards)}, for the
\* boards at TLA+ positions lo..hi (Python i = position - 1); a later entry
\* with the same key replaces an earlier one.
RECURSIVE id_table_range(_, _, _)
id_table_range(boards, lo, hi) ==
    IF lo > hi THEN <<>>
    ELSE IF lo = hi THEN board_to_string(boards[lo]) :> ((lo - 1) + 1)
    ELSE LET mid == (lo + hi) \div 2
         IN  id_table_range(boards, mid + 1, hi) @@ id_table_range(boards, lo, mid)

id_table(boards) == id_table_range(boards, 1, Len(boards))

\* a table that is started afresh whenever a key is missing
touch_resets(transitions, key) ==
    IF key \in DOMAIN transitions THEN transitions ELSE key :> <<>>

\* defaultdict(list).__getitem__: reading a missing key inserts it with []
touch(transitions, key) ==
    IF key \in DOMAIN transitions THEN transitions ELSE transitions @@ (key :> <<>>)

\* x in list
In(x, list) == \E k \in DOMAIN list : list[k] = x

\* a game-over test that is off by one on the empty cells
game_over_off_by_one(b) ==
    has_won(b, 1) \/ has_won(b, 2) \/ count(board_to_string(b), "0") <= 1

\* has_won(board, 1) or has_won(board, 2) or board_str.count('0') == 0
game_over(b) == has_won(b, 1) \/ has_won(b, 2) \/ count(board_to_string(b), "0") = 0

\* a turn rule with the two players swapped
current_player_swapped(b) == IF count(flat_board(b), 1) = count(flat_board(b), 2) THEN 2 ELSE 1

\* current_player = 1 if x_count == o_count else 2
current_player(b) == IF count(flat_board(b), 1) = count(flat_board(b), 2) THEN 1 ELSE 2

\* a move written to new_board[c][r]
place_transposed(b, r, c, player) == [b EXCEPT ![c + 1][r + 1] = player]

\* new_board = [row[:] for row in board]; new_board[r][c] = current_player
place(b, r, c, player) == [b EXCEPT ![r + 1][c + 1] = player]

\* find_transitions, lines 170-180: the body of the two cell loops for cell (r, c)
full_cell(transitions, ids, idx, b, r, c) ==
    IF At(b, r, c) # 0 THEN transitions
    ELSE LET new_board == place(b, r, c, current_player(b))
         IN  IF ~is_valid_board(new_board) THEN transitions
             ELSE LET new_board_str == board_to_string(new_board)
                  IN  IF new_board_str \notin DOMAIN ids THEN transitions
                      ELSE LET new_id == ids[new_board_str]
                               t == touch(transitions, idx + 1)
                           IN  IF In(new_id, t[idx + 1]) THEN t
                               ELSE [t EXCEPT ![idx + 1] = Append(@, new_id)]

\* for r in range(3): for c in range(3): cell number n = 3 * r + c
RECURSIVE full_cells(_, _, _, _, _)
full_cells(transitions, ids, idx, b, n) ==
    IF n = 9 THEN transitions
    ELSE full_cells(full_cell(transitions, ids, idx, b, n \div 3, n % 3), ids, idx, b, n + 1)

\* find_transitions, lines 154-180: one iteration of `for i, board in enumerate(boards)`
full_source(transitions, ids, idx, b) ==
    IF game_over(b) THEN transitions ELSE full_cells(transitions, ids, idx, b, 0)

WarnNoCanonical == "Warning: Could not find canonical form for board after move"

\* a cell body that looks up the candidate as it stands, none of its variants
unique_cell_identity_only(acc, ids, idx, b, r, c) ==
    IF At(b, r, c) # 0 THEN acc
    ELSE LET new_board == place(b, r, c, current_player(b))
         IN  IF ~is_valid_board(new_board) THEN acc
             ELSE IF board_to_string(new_board) \notin DOMAIN ids
                  THEN [acc EXCEPT !.printed = Append(@, WarnNoCanonical)]
                  ELSE LET new_id == ids[board_to_string(new_board)]
                           t == touch(acc.t, idx + 1)
                       IN  IF In(new_id, t[idx + 1]) THEN [acc EXCEPT !.t = t]
                           ELSE [acc EXCEPT !.t = [t EXCEPT ![idx + 1] = Append(@, new_id)]]

\* a cell body that appends the target without looking whether it is recorded
unique_cell_no_membership_test(acc, ids, idx, b, r, c) ==
    IF At(b, r, c) # 0 THEN acc
    ELSE LET new_board == place(b, r, c, current_player(b))
         IN  IF ~is_valid_board(new_board) THEN acc
             ELSE LET variants == get_all_variants(new_board)
                      hits == {k \in DOMAIN variants : board_to_string(variants[k]) \in DOMAIN ids}
                  IN  IF hits = {}
                      THEN [acc EXCEPT !.printed = Append(@, WarnNoCanonical)]
                      ELSE LET new_id == ids[board_to_string(variants[Min(hits)])]
                               t == touch(acc.t, idx + 1)
                           IN  [acc EXCEPT !.t = [t EXCEPT ![idx + 1] = Append(@, new_id)]]

\* find_unique_transitions, lines 901-918 for cell (r, c); acc = [t, printed]
unique_cell(acc, ids, idx, b, r, c) ==
    IF At(b, r, c) # 0 THEN acc
    ELSE LET new_board == place(b, r, c, current_player(b))
         IN  IF ~is_valid_board(new_board) THEN acc
             ELSE LET variants == get_all_variants(new_board)
                      hits == {k \in DOMAIN variants : board_to_string(variants[k]) \in DOMAIN ids}
                  IN  IF hits = {}
                      THEN [acc EXCEPT !.printed = Append(@, WarnNoCanonical)]
                      ELSE LET new_id == ids[board_to_string(variants[Min(hits)])]
                               t == touch(acc.t, idx + 1)
                           IN  IF In(new_id, t[idx + 1]) THEN [acc EXCEPT !.t = t]
                               ELSE [acc EXCEPT !.t = [t EXCEPT ![idx + 1] = Append(@, new_id)]]

RECURSIVE unique_cells(_, _, _, _, _)
unique_cells(acc, ids, idx, b, n) ==
    IF n = 9 THEN acc
    ELSE unique_cells(unique_cell(acc, ids, idx, b, n \div 3, n % 3), ids, idx, b, n + 1)

\* find_unique_transitions, lines 885-918: one iteration of the loop over unique_boards
unique_source(acc, ids, idx, b) ==
    IF game_over(b) THEN acc ELSE unique_cells(acc, ids, idx, b, 0)

\* find_transitions, line 154: for i, board in enumerate(boards), for the
\* boards at TLA+ positions lo..hi (Python i = position - 1), left to right
RECURSIVE full_loop(_, _, _, _, _)
full_loop(transitions, ids, boards, lo, hi) ==
    IF lo > hi THEN transitions
    ELSE IF lo = hi THEN full_source(transitions, ids, lo - 1, boards[lo])
    ELSE LET mid == (lo + hi) \div 2
             left == full_loop(transitions, ids, boards, lo, mid)
         IN  \* the test makes TLC compute the first half before the second
             IF Cardinality(DOMAIN left) >= 0
             THEN full_loop(left, ids, boards, mid + 1, hi) ELSE left

\* find_transitions(boards): the mapping it returns
find_transitions(boards) ==
    LET ids == id_table(boards)
    IN  full_loop(<<>>, ids, boards, 1, Len(boards))

\* find_unique_transitions, line 885: for i, board in enumerate(unique_boards)
RECURSIVE unique_loop(_, _, _, _, _)
unique_loop(acc, ids, boards, lo, hi) ==
    IF lo > hi THEN acc
    ELSE IF lo = hi THEN unique_source(acc, ids, lo - 1, boards[lo])
    ELSE LET mid == (lo + hi) \div 2
             left == unique_loop(acc, ids, boards, lo, mid)
         IN  \* the test makes TLC compute the first half before the second
             IF Cardinality(DOMAIN left.t) >= 0
             THEN unique_loop(left, ids, boards, mid + 1, hi) ELSE left

\* find_unique_transitions(unique_boards): the mapping it returns (t) and the
\* warnings it prints
find_unique_transitions(boards) ==
    LET ids == id_table(boards)
    IN  unique_loop([t |-> <<>>, printed |-> <<>>], ids, boards, 1, Len(boards))

----------------------------------------------------------------------------
(* generate_html: the per-board attributes it renders *)

\* dict.get(board_id, [])
get(transitions, board_id) ==
    IF board_id \in DOMAIN transitions THEN transitions[board_id] ELSE <<>>

\* a classification that tests for a full board before it tests for a line
filter_class_draw_first(b) ==
    LET x_won == has_won(b, 1)
        o_won == has_won(b, 2)
    IN  IF count(flat_board(b), 0) = 0 THEN "draw"
        ELSE IF x_won THEN "x-win"
        ELSE IF o_won THEN "o-win"
        ELSE IF count(flat_board(b), 1) = count(flat_board(b), 2) THEN "x-turn"
        ELSE "o-turn"

\* lines 420-438 / 503-521: filter_class
filter_class(b) ==
    LET x_won == has_won(b, 1)
        o_won == has_won(b, 2)
        is_draw == count(flat_board(b), 0) = 0 /\ ~x_won /\ ~o_won
    IN  IF x_won THEN "x-win"
        ELSE IF o_won THEN "o-win"
        ELSE IF is_draw THEN "draw"
        ELSE IF count(flat_board(b), 1) = count(flat_board(b), 2) THEN "x-turn"
        ELSE "o-turn"

\* lines 403-457 / 486-540: for i, board in enumerate(boards): board_id = i + 1, ...
render(boards, transitions) ==
    [k \in 1 .. Len(boards) |->
        [data_id |-> (k - 1) + 1,
         data_filter |-> filter_class(boards[k]),
         data_transitions |-> get(transitions, (k - 1) + 1)]]

----------------------------------------------------------------------------
(* main and the functions it calls, as steps *)

ExpectedValid == 5478
ExpectedUnique == 765

WarnValidCount == "Warning: Expected 5478 valid states"
WarnUniqueCount == "Warning: Expected 765 unique states"

Init ==
    /\ pc = "start"
    /\ valid_boards = <<>>
    /\ all_transitions = <<>>
    /\ unique_boards = <<>>
    /\ unique_transitions = <<>>
    /\ unique_board_to_id = <<>>
    /\ i = 0
    /\ stdout = <<>>
    /\ html = <<>>
    /\ board_to_id = <<>>
    /\ todo = {}
    /\ running = {}
    /\ board = <<>>
    /\ result = "none"

\* main, line 854: valid_boards = find_valid_boards()
CallFindValidBoards ==
    /\ pc = "start"
    /\ valid_boards' = find_valid_boards.boards
    /\ stdout' = stdout \o find_valid_boards.printed
    /\ pc' = "check_valid_count"
    /\ UNCHANGED <<all_transitions, unique_boards, unique_transitions,
                   unique_board_to_id, i, html, board, result,
                   board_to_id, todo, running>>

\* main, lines 858-859
CheckValidCount ==
    /\ pc = "check_valid_count"
    /\ stdout' = IF Len(valid_boards) # ExpectedValid
                 THEN Append(stdout, WarnValidCount) ELSE stdout
    /\ pc' = "find_transitions"
    /\ UNCHANGED <<valid_boards, all_transitions, unique_boards, unique_transitions,
                   unique_board_to_id, i, html, board, result,
                   board_to_id, todo, running>>

\* main, line 862: all_transitions = find_transitions(valid_boards)
CallFindTransitions ==
    /\ pc = "find_transitions"
    /\ all_transitions' = find_transitions(valid_boards)
    /\ pc' = "remove_duplicates"
    /\ UNCHANGED <<valid_boards, unique_boards, unique_transitions,
                   unique_board_to_id, i, stdout, html, board, result,
                   board_to_id, todo, running>>

\* main, line 865: unique_boards = remove_duplicates(valid_boards)
CallRemoveDuplicates ==
    /\ pc = "remove_duplicates"
    /\ unique_boards' = remove_duplicates(valid_boards)
    /\ pc' = "check_unique_count"
    /\ UNCHANGED <<valid_boards, all_transitions, unique_transitions,
                   unique_board_to_id, i, stdout, html, board, result,
                   board_to_id, todo, running>>

\* main, lines 869-870
CheckUniqueCount ==
    /\ pc = "check_unique_count"
    /\ stdout' = IF Len(unique_boards) # ExpectedUnique
                 THEN Append(stdout, WarnUniqueCount) ELSE stdout
    /\ pc' = "find_unique_transitions"
    /\ UNCHANGED <<valid_boards, all_transitions, unique_boards, unique_transitions,
                   unique_board_to_id, i, html, board, result,
                   board_to_id, todo, running>>

\* main, line 873: unique_transitions = find_unique_transitions(unique_boards)
CallFindUniqueTransitions ==
    /\ pc = "find_unique_transitions"
    /\ unique_transitions' = find_unique_transitions(unique_boards).t
    /\ stdout' = stdout \o find_unique_transitions(unique_boards).printed
    /\ pc' = "generate_html"
    /\ UNCHANGED <<valid_boards, all_transitions, unique_boards,
                   unique_board_to_id, i, html, board, result,
                   board_to_id, todo, running>>

\* main, lines 876-877: generate_html(valid_boards, all_transitions, unique_boards,
\* unique_transitions, ...)
GenerateHtml ==
    /\ pc = "generate_html"
    /\ html' = [all |-> render(valid_boards, all_transitions),
                unique |-> render(unique_boards, unique_transitions)]
    /\ pc' = "done"
    /\ UNCHANGED <<valid_boards, all_transitions, unique_boards, unique_transitions,
                   unique_board_to_id, i, stdout, board, result,
                   board_to_id, todo, running>>

\* every 3x3 board over {0, 1, 2}
Boards3x3 == [1 .. 3 -> [1 .. 3 -> 0 .. 2]]

\* variants = get_all_variants(board), called on its own with a 3x3 board
CallGetAllVariants ==
    /\ pc = "start"
    /\ \E b \in Boards3x3 :
           /\ board' = b
           /\ result' = get_all_variants(b)
    /\ pc' = "returned_variants"
    /\ UNCHANGED <<valid_boards, all_transitions, unique_boards, unique_transitions,
                   unique_board_to_id, i, stdout, html,
                   board_to_id, todo, running>>

Next ==
    \/ CallFindValidBoards
    \/ CheckValidCount
    \/ CallFindTransitions
    \/ CallRemoveDuplicates
    \/ CheckUniqueCount
    \/ CallFindUniqueTransitions
    \/ GenerateHtml
    \/ CallGetAllVariants

\* The module run as a script (main) or used for one call of get_all_variants
Spec == Init /\ [][Next]_vars

----------------------------------------------------------------------------
(* is_valid_board called on a supplied board, well-formed or not *)

\* Bounds of the boards a caller may hand to is_valid_board: how many rows or
\* columns may be missing, and the largest cell value
MaxMissing == 1
MaxCell == 3

\* rectangular grids of up to 3 rows and columns over 0..MaxCell
SuppliedBoards ==
    UNION {[1 .. rows -> [1 .. cols -> 0 .. MaxCell]] :
               rows \in (3 - MaxMissing) .. 3, cols \in (3 - MaxMissing) .. 3}

InitValidator ==
    /\ pc = "call"
    /\ board \in SuppliedBoards
    /\ result = "none"
    /\ valid_boards = <<>>
    /\ all_transitions = <<>>
    /\ unique_boards = <<>>
    /\ unique_transitions = <<>>
    /\ unique_board_to_id = <<>>
    /\ i = 0
    /\ stdout = <<>>
    /\ html = <<>>
    /\ board_to_id = <<>>
    /\ todo = {}
    /\ running = {}

\* is_valid_board(board): it returns True or False, or raises IndexError
CallIsValidBoard ==
    /\ pc = "call"
    /\ result' = is_valid_board_call(board)
    /\ pc' = "returned"
    /\ UNCHANGED <<valid_boards, all_transitions, unique_boards, unique_transitions,
                   unique_board_to_id, i, stdout, html, board,
                   board_to_id, todo, running>>

SpecValidator == InitValidator /\ [][CallIsValidBoard]_vars

----------------------------------------------------------------------------
(* find_unique_transitions called on a supplied list of boards, one loop *)
(* iteration per step                                                    *)

\* Bound: how many of the legal boards the supplied lists are drawn from
MaxPrefix == 40

\* the canonical representatives of the first MaxPrefix legal boards, cut after
\* the first n of them: canonical spaces that lack classes a move leads to
SuppliedLists ==
    LET canon == remove_duplicates(SubSeq(find_valid_boards.boards, 1, MaxPrefix))
    IN  {SubSeq(canon, 1, n) : n \in 1 .. Len(canon)}

InitUnique ==
    /\ pc = "find_unique_transitions"
    /\ unique_boards \in SuppliedLists
    /\ valid_boards = <<>>
    /\ all_transitions = <<>>
    /\ unique_transitions = <<>>
    /\ unique_board_to_id = <<>>
    /\ i = 0
    /\ stdout = <<>>
    /\ html = <<>>
    /\ board_to_id = <<>>
    /\ todo = {}
    /\ running = {}
    /\ board = <<>>
    /\ result = "none"

\* find_unique_transitions(unique_boards), lines 881-883
FindUniqueTransitionsBegin ==
    /\ pc = "find_unique_transitions"
    /\ unique_transitions' = <<>>
    /\ unique_board_to_id' = id_table(unique_boards)
    /\ i' = 0
    /\ pc' = "find_unique_transitions_loop"
    /\ UNCHANGED <<valid_boards, all_transitions, unique_boards,
                   stdout, html, board, result,
                   board_to_id, todo, running>>

\* find_unique_transitions, lines 885-918: the iteration for (i, unique_boards[i])
FindUniqueTransitionsStep ==
    /\ pc = "find_unique_transitions_loop"
    /\ i < Len(unique_boards)
    /\ LET after == unique_source([t |-> unique_transitions, printed |-> stdout],
                                  unique_board_to_id, i, unique_boards[i + 1])
       IN  /\ unique_transitions' = after.t
           /\ stdout' = after.printed
    /\ i' = i + 1
    /\ UNCHANGED <<pc, valid_boards, all_transitions, unique_boards,
                   unique_board_to_id, html, board, result,
                   board_to_id, todo, running>>

\* find_unique_transitions, line 924: return unique_transitions
FindUniqueTransitionsReturn ==
    /\ pc = "find_unique_transitions_loop"
    /\ i = Len(unique_boards)
    /\ pc' = "returned_unique_transitions"
    /\ UNCHANGED <<valid_boards, all_transitions, unique_boards, unique_transitions,
                   unique_board_to_id, i, stdout, html, board, result,
                   board_to_id, todo, running>>

NextUnique ==
    \/ FindUniqueTransitionsBegin
    \/ FindUniqueTransitionsStep
    \/ FindUniqueTransitionsReturn

SpecUnique == InitUnique /\ [][NextUnique]_vars

----------------------------------------------------------------------------
(* remove_duplicates called on a supplied list of boards *)

\* Bound: the length of the supplied lists
MaxLen == 3

\* the empty board and the nine boards with a single X
OpeningBoards == {empty_board} \cup {place(empty_board, r, c, 1) : r \in range3, c \in range3}

\* lists of at most MaxLen opening boards, in any order, repeats included
SuppliedInputs == UNION {[1 .. n -> OpeningBoards] : n \in 0 .. MaxLen}

InitDedupe ==
    /\ pc = "remove_duplicates"
    /\ valid_boards \in SuppliedInputs
    /\ all_transitions = <<>>
    /\ unique_boards = <<>>
    /\ unique_transitions = <<>>
    /\ unique_board_to_id = <<>>
    /\ i = 0
    /\ stdout = <<>>
    /\ html = <<>>
    /\ board_to_id = <<>>
    /\ todo = {}
    /\ running = {}
    /\ board = <<>>
    /\ result = "none"

\* unique_boards = remove_duplicates(valid_boards) for a supplied valid_boards
SpecDedupe == InitDedupe /\ [][CallRemoveDuplicates]_vars

----------------------------------------------------------------------------
(* The loops of find_transitions and find_unique_transitions with their *)
(* iterations begun in any order and interleaved cell by cell           *)

\* Bounds: the length of the board list, and how many iterations are under way
\* at a time
MaxSources == 4
MaxRunning == 2

\* the first MaxSources legal boards
SourcesFull == SubSeq(find_valid_boards.boards, 1, MaxSources)

\* the first MaxSources canonical boards
SourcesUnique ==
    LET canon == remove_duplicates(SubSeq(find_valid_boards.boards, 1, MaxPrefix))
    IN  SubSeq(canon, 1, Min({MaxSources, Len(canon)}))

\* the state at the head of the loop: the table empty, the id table built
InitAnyOrder ==
    /\ \/ /\ pc = "loop_full"
          /\ valid_boards = SourcesFull
          /\ unique_boards = <<>>
          /\ todo = 0 .. Len(SourcesFull) - 1
       \/ /\ pc = "loop_unique"
          /\ valid_boards = <<>>
          /\ unique_boards = SourcesUnique
          /\ todo = 0 .. Len(SourcesUnique) - 1
    /\ board_to_id = id_table(valid_boards)
    /\ unique_board_to_id = id_table(unique_boards)
    /\ all_transitions = <<>>
    /\ unique_transitions = <<>>
    /\ running = {}
    /\ i = 0
    /\ stdout = <<>>
    /\ html = <<>>
    /\ board = <<>>
    /\ result = "none"

\* lines 154-159 / 885-890: an iteration begins; it ends at once on a finished game
BeginIteration ==
    /\ pc \in {"loop_full", "loop_unique"}
    /\ Cardinality(running) < MaxRunning
    /\ \E idx \in todo :
           LET b == IF pc = "loop_full" THEN valid_boards[idx + 1]
                    ELSE unique_boards[idx + 1]
           IN  /\ todo' = todo \ {idx}
               /\ running' = IF game_over(b) THEN running
                             ELSE running \cup {[i |-> idx, n |-> 0]}
    /\ UNCHANGED <<pc, valid_boards, all_transitions, unique_boards, unique_transitions,
                   unique_board_to_id, i, stdout, html, board, result, board_to_id>>

\* the iteration w after its cell w.n
Advance(w) == IF w.n = 8 THEN {} ELSE {[w EXCEPT !.n = @ + 1]}

\* find_transitions, lines 169-180: one iteration tries its next cell
TryCellFull ==
    /\ pc = "loop_full"
    /\ \E w \in running :
           /\ all_transitions' = full_cell(all_transitions, board_to_id, w.i,
                                           valid_boards[w.i + 1], w.n \div 3, w.n % 3)
           /\ running' = (running \ {w}) \cup Advance(w)
    /\ UNCHANGED <<pc, valid_boards, unique_boards, unique_transitions,
                   unique_board_to_id, i, stdout, html, board, result, board_to_id, todo>>

\* find_unique_transitions, lines 900-918: one iteration tries its next cell
TryCellUnique ==
    /\ pc = "loop_unique"
    /\ \E w \in running :
           LET after == unique_cell([t |-> unique_transitions, printed |-> stdout],
                                    unique_board_to_id, w.i, unique_boards[w.i + 1],
                                    w.n \div 3, w.n % 3)
           IN  /\ unique_transitions' = after.t
               /\ stdout' = after.printed
               /\ running' = (running \ {w}) \cup Advance(w)
    /\ UNCHANGED <<pc, valid_boards, all_transitions, unique_boards,
                   unique_board_to_id, i, html, board, result, board_to_id, todo>>

\* lines 186 / 924: every iteration has ended, the table is returned
ReturnTransitions ==
    /\ pc \in {"loop_full", "loop_unique"}
    /\ todo = {}
    /\ running = {}
    /\ pc' = IF pc = "loop_full" THEN "returned_full" ELSE "returned_unique"
    /\ UNCHANGED <<valid_boards, all_transitions, unique_boards, unique_transitions,
                   unique_board_to_id, i, stdout, html, board, result,
                   board_to_id, todo, running>>

NextAnyOrder ==
    \/ BeginIteration
    \/ TryCellFull
    \/ TryCellUnique
    \/ ReturnTransitions

SpecAnyOrder == InitAnyOrder /\ [][NextAnyOrder]_vars

----------------------------------------------------------------------------
(* The rules of the game, stated on their own *)

Cells == (1 .. 3) \X (1 .. 3)

\* the 3 rows, the 3 columns and the 2 diagonals
Lines ==
    {{<<r, c>> : c \in 1 .. 3} : r \in 1 .. 3}
    \cup {{<<r, c>> : r \in 1 .. 3} : c \in 1 .. 3}
    \cup {{<<1, 1>>, <<2, 2>>, <<3, 3>>}, {<<1, 3>>, <<2, 2>>, <<3, 1>>}}

Num(b, m) == Cardinality({p \in Cells : b[p[1]][p[2]] = m})

Holds(b, m) == \E L \in Lines : \A p \in L : b[p[1]][p[2]] = m

LegalBoard(b) ==
    /\ Num(b, 1) = Num(b, 2) \/ Num(b, 1) = Num(b, 2) + 1
    /\ ~(Holds(b, 1) /\ Holds(b, 2))
    /\ Holds(b, 1) => Num(b, 1) = Num(b, 2) + 1
    /\ Holds(b, 2) => Num(b, 1) = Num(b, 2)

Terminal(b) == Holds(b, 1) \/ Holds(b, 2) \/ Num(b, 0) = 0

Mover(b) == IF Num(b, 1) = Num(b, 2) THEN 1 ELSE 2

\* t is s with the mover's mark on one empty cell, the other 8 cells unchanged
OneMove(s, t) ==
    \E p \in Cells :
        /\ s[p[1]][p[2]] = 0
        /\ t[p[1]][p[2]] = Mover(s)
        /\ \A q \in Cells \ {p} : t[q[1]][q[2]] = s[q[1]][q[2]]

\* the 9-digit base-3 number of a board, first cell most significant
Code(b) ==
    (((((((b[1][1] * 3 + b[1][2]) * 3 + b[1][3]) * 3 + b[2][1]) * 3 + b[2][2]) * 3
        + b[2][3]) * 3 + b[3][1]) * 3 + b[3][2]) * 3 + b[3][3]

Elems(seq) == {seq[k] : k \in DOMAIN seq}

\* find_transitions has returned / find_unique_transitions has returned
FullReturned == pc = "remove_duplicates"
UniqueReturned == pc = "generate_html"

----------------------------------------------------------------------------
(* Claims *)

\* C1: find_valid_boards returns exactly 5478 boards: exactly the 3x3 boards
\* over {0,1,2} that satisfy the legal-board invariant, each once, in
\* generation order (ascending base-3 code).
C1_ValidBoards ==
    pc = "check_valid_count" =>
        /\ Len(valid_boards) = 5478
        /\ Elems(valid_boards) = {b \in Boards3x3 : LegalBoard(b)}
        /\ \A k \in 1 .. Len(valid_boards) - 1 :
               Code(valid_boards[k]) < Code(valid_boards[k + 1])

C1_Witness ==
    /\ pc = "check_valid_count"
    /\ \E k \in DOMAIN valid_boards : Holds(valid_boards[k], 1)
    /\ \E k \in DOMAIN valid_boards : Holds(valid_boards[k], 2)
    /\ empty_board \in Elems(valid_boards)
    /\ stdout = <<>>

\* C2: remove_duplicates applied to the output of find_valid_boards returns
\* exactly 765 representatives.
C2_UniqueCount ==
    pc = "check_unique_count" => Len(unique_boards) = 765

C2_Witness ==
    /\ pc = "check_unique_count"
    /\ valid_boards = find_valid_boards.boards
    /\ Len(unique_boards) > 0
    /\ Len(unique_boards) < Len(valid_boards)

\* C3: the all-empty board has exactly 9 outgoing edges in the full graph, one
\* per cell, and exactly 3 in the canonical graph: a corner, an edge-centre
\* and the centre move.
C3_EmptyBoardEdges ==
    /\ FullReturned =>
           \E e \in DOMAIN valid_boards :
               /\ valid_boards[e] = empty_board
               /\ Len(get(all_transitions, e)) = 9
               /\ {valid_boards[t] : t \in Elems(get(all_transitions, e))}
                      = {[empty_board EXCEPT ![p[1]][p[2]] = 1] : p \in Cells}
    /\ UniqueReturned =>
           \E e \in DOMAIN unique_boards :
               /\ unique_boards[e] = empty_board
               /\ Len(get(unique_transitions, e)) = 3
               /\ LET targets == {unique_boards[t] : t \in Elems(get(unique_transitions, e))}
                      corners == {<<1, 1>>, <<1, 3>>, <<3, 1>>, <<3, 3>>}
                      centre == {<<2, 2>>}
                  IN  /\ \A t \in targets : OneMove(empty_board, t)
                      /\ \E t \in targets : \E p \in corners : t[p[1]][p[2]] = 1
                      /\ \E t \in targets : \E p \in centre : t[p[1]][p[2]] = 1
                      /\ \E t \in targets : \E p \in Cells \ (corners \cup centre) :
                             t[p[1]][p[2]] = 1

C3_Witness ==
    /\ UniqueReturned
    /\ empty_board \in Elems(valid_boards)
    /\ empty_board \in Elems(unique_boards)
    /\ all_transitions # <<>>
    /\ unique_transitions # <<>>

\* C4: in both graphs every terminal board (a line of X, a line of O, or no
\* empty cell) has no outgoing edge, and every other board has at least one.
C4_TerminalNoEdges ==
    /\ FullReturned =>
           \A k \in DOMAIN valid_boards :
               Terminal(valid_boards[k]) <=> get(all_transitions, k) = <<>>
    /\ UniqueReturned =>
           \A k \in DOMAIN unique_boards :
               Terminal(unique_boards[k]) <=> get(unique_transitions, k) = <<>>

C4_Witness ==
    /\ UniqueReturned
    /\ \E k \in DOMAIN unique_boards :
           Holds(unique_boards[k], 1) /\ get(unique_transitions, k) = <<>>
    /\ \E k \in DOMAIN unique_boards :
           Holds(unique_boards[k], 2) /\ get(unique_transitions, k) = <<>>
    /\ \E k \in DOMAIN unique_boards :
           /\ ~Holds(unique_boards[k], 1)
           /\ Num(unique_boards[k], 0) = 0
           /\ get(unique_transitions, k) = <<>>
    /\ \E k \in DOMAIN unique_boards :
           ~Terminal(unique_boards[k]) /\ get(unique_transitions, k) # <<>>

\* C5: for every edge (s, t), the board of t (full graph) or one of its
\* symmetry variants (canonical graph) is the board of s with the mover's mark
\* (X when s has as many X as O, else O) on exactly one previously empty cell
\* and the other 8 cells unchanged; t is a member of the legal (canonical) set.
C5_EdgesAreMoves ==
    /\ FullReturned =>
           \A s \in DOMAIN all_transitions : \A t \in Elems(all_transitions[s]) :
               /\ s \in DOMAIN valid_boards
               /\ t \in DOMAIN valid_boards
               /\ OneMove(valid_boards[s], valid_boards[t])
    /\ UniqueReturned =>
           \A s \in DOMAIN unique_transitions : \A t \in Elems(unique_transitions[s]) :
               /\ s \in DOMAIN unique_boards
               /\ t \in DOMAIN unique_boards
               /\ \E v \in Elems(get_all_variants(unique_boards[t])) :
                      OneMove(unique_boards[s], v)

C5_Witness ==
    /\ UniqueReturned
    /\ \E s \in DOMAIN all_transitions :
           Mover(valid_boards[s]) = 2 /\ all_transitions[s] # <<>>
    /\ \E s \in DOMAIN unique_transitions : \E t \in Elems(unique_transitions[s]) :
           /\ Mover(unique_boards[s]) = 1
           /\ ~OneMove(unique_boards[s], unique_boards[t])

\* C6 (the claim as stated; the code does not satisfy it): the mapping returned
\* by find_transitions and by find_unique_transitions has every id of its state
\* space as a key, the ids of terminal boards included.
C6_EveryIdIsKey ==
    /\ FullReturned => DOMAIN all_transitions = 1 .. Len(valid_boards)
    /\ UniqueReturned => DOMAIN unique_transitions = 1 .. Len(unique_boards)

\* C7 (the claim as stated; the code does not satisfy it): once
\* find_unique_transitions has met a candidate with no canonical form, it does
\* not go on to return its table as if the run were sound.
C7_HardFailure ==
    WarnNoCanonical \in Elems(stdout) => pc # "returned_unique_transitions"

\* C8: ids are 1-based everywhere: with N boards every key and every target is
\* in 1..N; key k stands for the board at list position k-1 and target t for
\* the board at list position t-1, the board the move produces (up to symmetry
\* in the canonical graph); generate_html gives the board at position p the id
\* p+1 and looks up its transitions under p+1.
C8_OneIdBase ==
    /\ FullReturned =>
           \A k \in DOMAIN all_transitions :
               /\ k \in 1 .. Len(valid_boards)
               /\ \A t \in Elems(all_transitions[k]) :
                      /\ t \in 1 .. Len(valid_boards)
                      /\ OneMove(valid_boards[(k - 1) + 1], valid_boards[(t - 1) + 1])
    /\ UniqueReturned =>
           \A k \in DOMAIN unique_transitions :
               /\ k \in 1 .. Len(unique_boards)
               /\ \A t \in Elems(unique_transitions[k]) :
                      /\ t \in 1 .. Len(unique_boards)
                      /\ \E v \in Elems(get_all_variants(unique_boards[(t - 1) + 1])) :
                             OneMove(unique_boards[(k - 1) + 1], v)
    /\ pc = "done" =>
           /\ Len(html.all) = Len(valid_boards)
           /\ \A p \in 0 .. Len(valid_boards) - 1 :
                  /\ html.all[p + 1].data_id = p + 1
                  /\ html.all[p + 1].data_transitions = get(all_transitions, p + 1)
           /\ Len(html.unique) = Len(unique_boards)
           /\ \A p \in 0 .. Len(unique_boards) - 1 :
                  /\ html.unique[p + 1].data_id = p + 1
                  /\ html.unique[p + 1].data_transitions = get(unique_transitions, p + 1)

C8_Witness ==
    /\ pc = "done"
    /\ html.all[1].data_id = 1
    /\ Len(html.all[1].data_transitions) = 9
    /\ html.unique[Len(unique_boards)].data_id = 765
    /\ \E k \in DOMAIN unique_transitions : Len(unique_boards) \in Elems(unique_transitions[k])

\* C9: get_all_variants returns 8 boards forming a closed orbit: element 0 is
\* the board; elements 1..3 are the 90-degree rotation applied 1..3 times, a
\* fourth application gives the board back; each reflection (elements 4..7)
\* applied twice gives the board back; the variants of any variant are, as a
\* set, the variants of the board.
C9_ClosedOrbit ==
    pc = "returned_variants" =>
        /\ Len(result) = 8
        /\ result[1] = board
        /\ result[2] = get_all_variants(board)[2]
        /\ result[3] = get_all_variants(result[2])[2]
        /\ result[4] = get_all_variants(result[3])[2]
        /\ board = get_all_variants(result[4])[2]
        /\ \A k \in 5 .. 8 : get_all_variants(result[k])[k] = board
        /\ \A k \in 1 .. 8 : Elems(get_all_variants(result[k])) = Elems(result)

C9_Witness ==
    /\ pc = "returned_variants"
    /\ Cardinality(Elems(result)) = 8
    /\ board \in Elems(find_valid_boards.boards)

\* 3 rows of 3 cells, every cell in {0,1,2}
WellFormed(b) ==
    /\ Len(b) = 3
    /\ \A r \in DOMAIN b : Len(b[r]) = 3 /\ \A c \in DOMAIN b[r] : b[r][c] \in 0 .. 2

\* C10 (the claim as stated; the code does not satisfy it): is_valid_board
\* returns False for a board with a cell value outside {0,1,2} or a shape
\* other than 3 rows of 3 cells.
C10_MalformedRejected ==
    (pc = "returned" /\ ~WellFormed(board)) => result = "False"

\* C11: every legal board in which X holds a line has no outgoing edge in
\* either graph and is rendered as an X win, never as a draw, full boards
\* included; a board is rendered as a draw only when it is full and neither
\* player holds a line.
C11_XLineIsWin ==
    pc = "done" =>
        /\ \A k \in DOMAIN valid_boards :
               /\ Holds(valid_boards[k], 1) =>
                      /\ get(all_transitions, k) = <<>>
                      /\ html.all[k].data_transitions = <<>>
                      /\ html.all[k].data_filter = "x-win"
               /\ html.all[k].data_filter = "draw" =>
                      /\ Num(valid_boards[k], 0) = 0
                      /\ ~Holds(valid_boards[k], 1)
                      /\ ~Holds(valid_boards[k], 2)
        /\ \A k \in DOMAIN unique_boards :
               /\ Holds(unique_boards[k], 1) =>
                      /\ get(unique_transitions, k) = <<>>
                      /\ html.unique[k].data_transitions = <<>>
                      /\ html.unique[k].data_filter = "x-win"
               /\ html.unique[k].data_filter = "draw" =>
                      /\ Num(unique_boards[k], 0) = 0
                      /\ ~Holds(unique_boards[k], 1)
                      /\ ~Holds(unique_boards[k], 2)

\* a full board with X on a whole diagonal, and a drawn board, were rendered
C11_Witness ==
    /\ pc = "done"
    /\ \E k \in DOMAIN unique_boards :
           /\ Num(unique_boards[k], 0) = 0
           /\ \A d \in 1 .. 3 : unique_boards[k][d][d] = 1
           /\ html.unique[k].data_filter = "x-win"
    /\ \E k \in DOMAIN valid_boards :
           /\ Num(valid_boards[k], 0) = 0
           /\ Holds(valid_boards[k], 1)
           /\ html.all[k].data_filter = "x-win"
    /\ \E k \in DOMAIN valid_boards : html.all[k].data_filter = "draw"

\* the elements of seq at the positions in S, in ascending order of position
Nth(S, n) == CHOOSE k \in S : Cardinality({j \in S : j < k}) = n - 1

SubsequenceAt(seq, S) == [n \in 1 .. Cardinality(S) |-> seq[Nth(S, n)]]

\* the input positions whose board has no symmetry variant at an earlier position
FirstOfOrbit(seq) ==
    {k \in DOMAIN seq :
        \A j \in 1 .. k - 1 : seq[j] \notin Elems(get_all_variants(seq[k]))}

\* C12: remove_duplicates keeps a board of its input exactly when no board at
\* an earlier position lies in its orbit; the output is the input restricted
\* to those positions, in input order, and the canonical id of a
\* representative is its (1-based) position in the output.
C12_FirstSeenKept ==
    pc = "check_unique_count" =>
        /\ unique_boards = SubsequenceAt(valid_boards, FirstOfOrbit(valid_boards))
        /\ \A n \in DOMAIN unique_boards :
               id_table(unique_boards)[board_to_string(unique_boards[n])] = n

\* a list of three whose third board is a rotation or reflection of the first,
\* not the first itself, and was dropped, with the second kept behind the first
C12_Witness ==
    /\ pc = "check_unique_count"
    /\ Len(valid_boards) = 3
    /\ valid_boards[3] # valid_boards[1]
    /\ valid_boards[3] \in Elems(get_all_variants(valid_boards[1]))
    /\ unique_boards = <<valid_boards[1], valid_boards[2]>>

\* C13: the canonical representatives partition the legal boards by orbit:
\* every legal board has exactly one representative among its 8 symmetry
\* variants, and no two representatives are symmetry variants of each other.
C13_OrbitPartition ==
    pc = "check_unique_count" =>
        LET reps == Elems(unique_boards)
        IN  /\ \A k \in DOMAIN valid_boards :
                   Cardinality(Elems(get_all_variants(valid_boards[k])) \cap reps) = 1
            /\ Cardinality(reps) = Len(unique_boards)
            /\ \A a \in DOMAIN unique_boards :
                   Elems(get_all_variants(unique_boards[a])) \cap reps = {unique_boards[a]}

\* the legal boards were deduplicated; some legal board with 8 distinct
\* variants is no representative itself
C13_Witness ==
    /\ pc = "check_unique_count"
    /\ Len(valid_boards) = ExpectedValid
    /\ \E k \in DOMAIN valid_boards :
           /\ Cardinality(Elems(get_all_variants(valid_boards[k]))) = 8
           /\ valid_boards[k] \notin Elems(unique_boards)

\* the candidate of source board b for the empty cell p
Candidate(b, p) == [b EXCEPT ![p[1]][p[2]] = Mover(b)]

\* the positions in the variant list of board c that the id table ids knows
TableHits(ids, c) ==
    {v \in 1 .. 8 : board_to_string(get_all_variants(c)[v]) \in DOMAIN ids}

\* C14: in find_unique_transitions, for every non-terminal canonical source and
\* every candidate move that passes validation, at least one of the candidate's
\* 8 variants is in the canonical id table, so the "could not find canonical
\* form" warning is never printed; and all variants that are in the table map
\* to the same id, so the first match in variant order decides nothing.
C14_CanonicalFound ==
    UniqueReturned =>
        /\ WarnNoCanonical \notin Elems(stdout)
        /\ LET ids == id_table(unique_boards)
           IN  \A k \in DOMAIN unique_boards : \A p \in Cells :
                   (/\ ~Terminal(unique_boards[k])
                    /\ unique_boards[k][p[1]][p[2]] = 0
                    /\ is_valid_board(Candidate(unique_boards[k], p)))
                   => LET c == Candidate(unique_boards[k], p)
                          hits == TableHits(ids, c)
                      IN  /\ hits # {}
                          /\ \A v \in hits : \A w \in hits :
                                 ids[board_to_string(get_all_variants(c)[v])]
                                     = ids[board_to_string(get_all_variants(c)[w])]

\* the canonical table was built from the 765 representatives; some candidate
\* is not canonical itself (its first match is a later variant) and some
\* candidate has several of its variants in the table
C14_Witness ==
    /\ UniqueReturned
    /\ Len(unique_boards) = ExpectedUnique
    /\ LET ids == id_table(unique_boards)
       IN  /\ \E k \in DOMAIN unique_boards : \E p \in Cells :
                  /\ ~Terminal(unique_boards[k])
                  /\ unique_boards[k][p[1]][p[2]] = 0
                  /\ 1 \notin TableHits(ids, Candidate(unique_boards[k], p))
           /\ \E k \in DOMAIN unique_boards : \E p \in Cells :
                  /\ ~Terminal(unique_boards[k])
                  /\ unique_boards[k][p[1]][p[2]] = 0
                  /\ Cardinality(TableHits(ids, Candidate(unique_boards[k], p))) > 1

\* cell number n of the row-major scan, n = 0..8, as <<row, column>>
ScanCell(n) == <<(n \div 3) + 1, (n % 3) + 1>>

\* the scan numbers of the empty cells of s whose candidate is one of `boards`
CellsLeadingTo(s, boards) ==
    {n \in 0 .. 8 : /\ s[ScanCell(n)[1]][ScanCell(n)[2]] = 0
                    /\ Candidate(s, ScanCell(n)) \in boards}

\* no element twice
NoRepeats(seq) == \A a \in DOMAIN seq : \A b \in DOMAIN seq : a # b => seq[a] # seq[b]

\* C15: for every source id in either graph the target sequence holds no id
\* twice, and its targets stand in the order of the first empty cell, scanned
\* row-major, whose candidate resolves to them; in the canonical graph several
\* cells that resolve to the same class give one edge.
C15_DiscoveryOrder ==
    /\ FullReturned =>
           \A k \in DOMAIN all_transitions :
               LET seq == all_transitions[k]
                   first(t) == CellsLeadingTo(valid_boards[k], {valid_boards[t]})
               IN  /\ NoRepeats(seq)
                   /\ \A a \in DOMAIN seq : first(seq[a]) # {}
                   /\ \A a \in DOMAIN seq : \A b \in DOMAIN seq :
                          a < b => Min(first(seq[a])) < Min(first(seq[b]))
    /\ UniqueReturned =>
           \A k \in DOMAIN unique_transitions :
               LET seq == unique_transitions[k]
                   first(t) == CellsLeadingTo(unique_boards[k],
                                              Elems(get_all_variants(unique_boards[t])))
               IN  /\ NoRepeats(seq)
                   /\ \A a \in DOMAIN seq : first(seq[a]) # {}
                   /\ \A a \in DOMAIN seq : \A b \in DOMAIN seq :
                          a < b => Min(first(seq[a])) < Min(first(seq[b]))

\* a full-graph sequence that is not ascending in the target id, and a
\* canonical edge that several cells of its source lead to
C15_Witness ==
    /\ UniqueReturned
    /\ \E k \in DOMAIN all_transitions : \E a \in DOMAIN all_transitions[k] :
           a > 1 /\ all_transitions[k][a - 1] > all_transitions[k][a]
    /\ \E k \in DOMAIN unique_transitions : \E a \in DOMAIN unique_transitions[k] :
           /\ a > 1
           /\ Cardinality(CellsLeadingTo(unique_boards[k],
                  Elems(get_all_variants(unique_boards[unique_transitions[k][a]])))) > 1

\* C16: for every non-terminal legal board and every empty cell, the candidate
\* with the mover's mark on that cell passes is_valid_board and is in the
\* full-space id table, so no candidate is discarded and the out-degree of a
\* non-terminal board in the full graph is its number of empty cells.
C16_NoCandidateDiscarded ==
    FullReturned =>
        LET ids == id_table(valid_boards)
        IN  \A k \in DOMAIN valid_boards :
                ~Terminal(valid_boards[k]) =>
                    /\ \A p \in Cells :
                           valid_boards[k][p[1]][p[2]] = 0 =>
                               /\ is_valid_board(Candidate(valid_boards[k], p))
                               /\ board_to_string(Candidate(valid_boards[k], p)) \in DOMAIN ids
                    /\ Len(get(all_transitions, k)) = Num(valid_boards[k], 0)

\* the full table was built; a board with one empty cell has one edge and a
\* board with O to move has as many edges as empty cells
C16_Witness ==
    /\ FullReturned
    /\ \E k \in DOMAIN valid_boards :
           /\ ~Terminal(valid_boards[k])
           /\ Num(valid_boards[k], 0) = 1
           /\ Len(get(all_transitions, k)) = 1
    /\ \E k \in DOMAIN valid_boards :
           /\ ~Terminal(valid_boards[k])
           /\ Mover(valid_boards[k]) = 2
           /\ Len(get(all_transitions, k)) = 8

\* a is an initial part of b
Prefix(a, b) == Len(a) <= Len(b) /\ SubSeq(b, 1, Len(a)) = a

\* Where the iterations stand against the table `sequential` of the sequential
\* pass: an iteration not begun has no entry, one under way has an initial part
\* of its sequential entry, one that ended has exactly its sequential entry.
EntriesAgree(table, sequential, n) ==
    \A idx \in 0 .. n - 1 :
        IF idx \in todo THEN idx + 1 \notin DOMAIN table
        ELSE IF \E w \in running : w.i = idx
        THEN Prefix(get(table, idx + 1), get(sequential, idx + 1))
        ELSE /\ idx + 1 \in DOMAIN table <=> idx + 1 \in DOMAIN sequential
             /\ get(table, idx + 1) = get(sequential, idx + 1)

\* what the sequential pass returns (and prints) for the same boards
SequentialFull == find_transitions(SourcesFull)
SequentialUnique == find_unique_transitions(SourcesUnique)

\* C17: transition discovery for a source touches only that source's entry and
\* leaves the input boards and the id table as they were, so with the sources
\* taken in any order and interleaved, every entry is the one of the
\* sequential pass and the returned table is the sequential table.
C17_OrderIndependent ==
    /\ pc \in {"loop_full", "returned_full"} =>
           /\ valid_boards = SourcesFull
           /\ board_to_id = id_table(valid_boards)
           /\ EntriesAgree(all_transitions, SequentialFull, Len(valid_boards))
           /\ pc = "returned_full" => all_transitions = SequentialFull
    /\ pc \in {"loop_unique", "returned_unique"} =>
           /\ unique_boards = SourcesUnique
           /\ unique_board_to_id = id_table(unique_boards)
           /\ EntriesAgree(unique_transitions, SequentialUnique.t, Len(unique_boards))
           /\ pc = "returned_unique" =>
                  /\ unique_transitions = SequentialUnique.t
                  /\ stdout = SequentialUnique.printed

\* two iterations are under way, both past their first cell, and a later
\* source has its entry while an earlier source has not begun
C17_Witness ==
    /\ pc = "loop_full"
    /\ Cardinality(running) = 2
    /\ \A w \in running : w.n > 0
    /\ \E a \in todo : \E b \in 0 .. Len(valid_boards) - 1 :
           /\ a < b
           /\ b \notin todo
           /\ get(all_transitions, b + 1) # <<>>

\* the ids reachable from `seen` along the edges of `table`
RECURSIVE Reach(_, _, _)
Reach(table, frontier, seen) ==
    LET next == UNION {Elems(get(table, k)) : k \in frontier} \ seen
    IN  IF next = {} THEN seen ELSE Reach(table, next, seen \cup next)

\* the boards a play can reach from `seen`: the mover marks an empty cell,
\* and no move follows a line or a full board
RECURSIVE PlayReach(_, _)
PlayReach(frontier, seen) ==
    LET movesOf(s) == {Candidate(s, p) : p \in {q \in Cells : s[q[1]][q[2]] = 0}}
        next == UNION {movesOf(s) : s \in {f \in frontier : ~Terminal(f)}} \ seen
    IN  IF next = {} THEN seen ELSE PlayReach(next, seen \cup next)

\* every board a play from the empty board can show
PlayReachable == PlayReach({empty_board}, {empty_board})

\* the boards is_valid_board accepts
AcceptedBoards == {b \in Boards3x3 : is_valid_board(b)}

\* the position of the empty board in a board list
EmptyId(boards) == CHOOSE k \in DOMAIN boards : boards[k] = empty_board

\* C18: the boards reachable from the empty board along full-graph edges are
\* exactly the boards is_valid_board accepts: every board of a play of
\* alternating moves that stops at a line or a full board is accepted and
\* every accepted board occurs in such a play; and every canonical
\* representative is reachable from the id of the empty board in the
\* canonical graph.
C18_Reachability ==
    /\ FullReturned =>
           /\ PlayReachable = AcceptedBoards
           /\ {valid_boards[k] :
                  k \in Reach(all_transitions, {EmptyId(valid_boards)}, {EmptyId(valid_boards)})}
                  = AcceptedBoards
    /\ UniqueReturned =>
           Reach(unique_transitions, {EmptyId(unique_boards)}, {EmptyId(unique_boards)})
               = DOMAIN unique_boards

\* both tables were built from the legal boards; a full board with a line of
\* X, nine moves deep, is among the boards reached
C18_Witness ==
    /\ UniqueReturned
    /\ Len(valid_boards) = ExpectedValid
    /\ \E k \in Reach(all_transitions, {EmptyId(valid_boards)}, {EmptyId(valid_boards)}) :
           Num(valid_boards[k], 0) = 0 /\ Holds(valid_boards[k], 1)
    /\ Cardinality(Reach(unique_transitions, {EmptyId(unique_boards)},
                         {EmptyId(unique_boards)})) = ExpectedUnique

\* the canonical id of the orbit of board b, by the canonical id table ids
RepId(ids, b) ==
    ids[board_to_string(get_all_variants(b)[Min(TableHits(ids, b))])]

\* C19: the canonical graph is the quotient of the full graph by symmetry: for
\* every full-graph edge (s, t) the canonical graph has an edge from the
\* representative of s to the representative of t, and for every canonical
\* edge (u, v) the full graph has an edge from the board of u to a board in
\* the orbit of v.
C19_QuotientGraph ==
    UniqueReturned =>
        LET uids == id_table(unique_boards)
            fids == id_table(valid_boards)
            rep == [k \in DOMAIN valid_boards |-> RepId(uids, valid_boards[k])]
        IN  /\ \A s \in DOMAIN all_transitions : \A t \in Elems(all_transitions[s]) :
                   In(rep[t], get(unique_transitions, rep[s]))
            /\ \A u \in DOMAIN unique_transitions : \A v \in Elems(unique_transitions[u]) :
                   \E t \in Elems(get(all_transitions, fids[board_to_string(unique_boards[u])])) :
                       valid_boards[t] \in Elems(get_all_variants(unique_boards[v]))

\* both tables were built; some full-graph edge joins two boards neither of
\* which is a representative, and some canonical edge ends in a board that is
\* not itself the result of the move
C19_Witness ==
    /\ UniqueReturned
    /\ \E s \in DOMAIN all_transitions : \E t \in Elems(all_transitions[s]) :
           /\ valid_boards[s] \notin Elems(unique_boards)
           /\ valid_boards[t] \notin Elems(unique_boards)
    /\ \E u \in DOMAIN unique_transitions : \E v \in Elems(unique_transitions[u]) :
           ~OneMove(unique_boards[u], unique_boards[v])

\* C20: every representative that remove_duplicates chooses among the legal
\* boards, which arrive in ascending order of their 9-digit base-3 encoding,
\* has the smallest encoding among its 8 symmetry variants.
C20_MinimalRepresentative ==
    pc = "check_unique_count" =>
        \A n \in DOMAIN unique_boards :
            \A v \in Elems(get_all_variants(unique_boards[n])) :
                Code(unique_boards[n]) <= Code(v)

\* the legal boards were deduplicated in ascending order of encoding; some
\* representative has a variant with a larger encoding, and some legal board
\* with a smaller-encoded variant was passed over
C20_Witness ==
    /\ pc = "check_unique_count"
    /\ Len(unique_boards) = ExpectedUnique
    /\ \A k \in 1 .. Len(valid_boards) - 1 : Code(valid_boards[k]) < Code(valid_boards[k + 1])
    /\ \E n \in DOMAIN unique_boards :
           \E v \in Elems(get_all_variants(unique_boards[n])) : Code(unique_boards[n]) < Code(v)
    /\ \E k \in DOMAIN valid_boards :
           /\ valid_boards[k] \notin Elems(unique_boards)
           /\ \E v \in Elems(get_all_variants(valid_boards[k])) : Code(v) < Code(valid_boards[k])
====
